---- MODULE Spec2Model ----
(***************************************************************************)
(* A model of torch_bfn/networks.py: the networks of a Bayesian Flow       *)
(* Network (BFNetwork, LinearNetwork, DiscreteLinearNet, Unet), their      *)
(* class conditioning with classifier-free-guidance dropout, and           *)
(* forward_with_cond_scale.                                                *)
(*                                                                         *)
(* Tensors are modelled by their shape (a sequence of sizes) and, where    *)
(* the value matters, by one integer per batch element.  Every layer is    *)
(* an operator from shapes to shapes that fails (ErrShape) exactly where   *)
(* the layer would raise.  Probabilities are multiples of 1/ProbSteps.     *)
(*                                                                         *)
(* Scope of the inputs: the attention arguments of Unet (full_attn,        *)
(* attn_heads, attn_dim_head) are given with one entry per stage, so the   *)
(* zip of lines 711-716 and 745-754 runs over every stage.                 *)
(***************************************************************************)
EXTENDS Integers, Sequences, FiniteSets, TLC

\* ------------------------------------------------------------- bounds
MaxBatch == 2
MaxStages == 3
MaxHW == 4
MaxHidden == 2
NumClasses == 2
ProbSteps == 3
MaxCondScale == 2

\* Optional[...] = None, and the null class embedding (a row that is no class)
None == -1
NullEmb == -2

\* ------------------------------------------------------- small helpers
Max(a, b) == IF a >= b THEN a ELSE b

RECURSIVE Pow2(_)
Pow2(n) == IF n <= 0 THEN 1 ELSE 2 * Pow2(n - 1)

RECURSIVE SeqsUpTo(_, _)
\* all sequences over S of length 0..n
SeqsUpTo(S, n) ==
  IF n = 0 THEN {<<>>}
  ELSE LET shorter == SeqsUpTo(S, n - 1)
       IN shorter \cup {Append(s, e) : s \in {t \in shorter : Len(t) = n - 1}, e \in S}

Reverse(s) == [i \in 1..Len(s) |-> s[Len(s) + 1 - i]]

\* torch_bfn.utils
exists(v) == v # None
default(v, d) == IF exists(v) THEN v ELSE d

\* ------------------------------------------------------- tensor shapes
\* A failed tensor operation: RuntimeError (shapes do not fit),
\* ZeroDivisionError, and "no tensor" (a None argument).
ErrShape == <<-1>>
ZeroDivShape == <<-2>>
Absent == <<-3>>
IsErr(s) == s = ErrShape \/ s = ZeroDivShape

\* the size of dimension i of s once s is right-aligned to rank n
Aligned(s, n, i) == IF i > n - Len(s) THEN s[i - (n - Len(s))] ELSE 1

\* torch broadcasting of two shapes
Broadcast(a, b) ==
  IF IsErr(a) THEN a
  ELSE IF IsErr(b) THEN b
  ELSE LET n == Max(Len(a), Len(b))
       IN IF \A i \in 1..n : \/ Aligned(a, n, i) = Aligned(b, n, i)
                             \/ Aligned(a, n, i) = 1
                             \/ Aligned(b, n, i) = 1
          THEN [i \in 1..n |-> IF Aligned(a, n, i) = 1 THEN Aligned(b, n, i)
                               ELSE Aligned(a, n, i)]
          ELSE ErrShape

\* t.cat((a, b), axis): same rank, same sizes off the axis
Cat(a, b, axis) ==
  IF IsErr(a) THEN a
  ELSE IF IsErr(b) THEN b
  ELSE IF Len(a) # Len(b) \/ axis < 1 \/ axis > Len(a) THEN ErrShape
  ELSE IF \E i \in 1..Len(a) : i # axis /\ a[i] # b[i] THEN ErrShape
  ELSE [a EXCEPT ![axis] = a[axis] + b[axis]]

\* s.chunk(2, dim = axis) when both halves are unpacked: the size of one half
Chunk2(s, axis) ==
  IF IsErr(s) THEN s
  ELSE IF axis > Len(s) \/ s[axis] < 2 THEN ErrShape
  ELSE [s EXCEPT ![axis] = (s[axis] + 1) \div 2]

\* s[:, None]
Unsqueeze1(s) ==
  IF IsErr(s) THEN s
  ELSE IF Len(s) = 0 THEN ErrShape
  ELSE <<s[1], 1>> \o Tail(s)

\* nn.Linear(l.in, l.out) on a tensor of shape s
Linear(l, s) ==
  IF IsErr(s) THEN s
  ELSE IF Len(s) = 0 THEN ErrShape
  ELSE IF s[Len(s)] # l.in THEN ErrShape
  ELSE [s EXCEPT ![Len(s)] = l.out]

\* nn.Conv2d(l.in, l.out, k, padding = (k - 1) / 2): keeps height and width
Conv2d(l, s) ==
  IF IsErr(s) THEN s
  ELSE IF Len(s) # 4 THEN ErrShape
  ELSE IF s[2] # l.in THEN ErrShape
  ELSE [s EXCEPT ![2] = l.out]

\* nn.Embedding(n, dim) on an index tensor of shape s
Embedding(dim, s) == IF IsErr(s) THEN s ELSE s \o <<dim>>

\* ------------------------------------------------------------- layers
\* defaults of the constructors
LearnedSinusoidalDim == 16
SinDim == 16
TimeDim == 16
AttnHeads == 4
AttnDimHead == 32

SinusoidalPosEmb(dim, s) ==
  LET half_dim == dim \div 2
  IN IF IsErr(s) THEN s
     ELSE IF half_dim - 1 = 0 THEN ZeroDivShape
     ELSE LET emb == Broadcast(Unsqueeze1(s), <<1, half_dim>>)
          IN IF IsErr(emb) THEN emb ELSE Cat(emb, emb, Len(emb))

RandomOrLearnedSinusoidalPosEmb(dim, s) ==
  LET half_dim == dim \div 2
      freqs == Broadcast(s, <<1, half_dim>>)
      fouriered == IF IsErr(freqs) THEN freqs ELSE Cat(freqs, freqs, Len(freqs))
  IN IF IsErr(fouriered) THEN fouriered
     ELSE IF Len(s) = 0 THEN ErrShape
     ELSE Cat(s, fouriered, Len(s))

\* time_mlp: the embedding, nn.Linear, nn.GELU, nn.Linear
time_mlp(tm, s) ==
  LET emb == IF tm.learned THEN RandomOrLearnedSinusoidalPosEmb(tm.dim, s)
             ELSE SinusoidalPosEmb(tm.dim, s)
  IN Linear(tm.lin2, Linear(tm.lin1, emb))

\* cond_mlp / classes_mlp: nn.Linear, nn.GELU, nn.Linear
cond_mlp(m, s) == Linear(m.lin2, Linear(m.lin1, s))

\* t.cat(tuple(filter(exists, (time_emb, cond_emb))), -1)
CatEmb(time_emb, cond_emb) ==
  IF cond_emb = Absent THEN time_emb
  ELSE IF time_emb = Absent THEN cond_emb
  ELSE IF IsErr(time_emb) THEN time_emb
  ELSE Cat(time_emb, cond_emb, Len(time_emb))

LinearBlock(blk, s, scale_shift) ==
  LET x == Linear(blk, s)
  IN IF scale_shift = Absent THEN x ELSE Broadcast(x, scale_shift)

LinearResnetBlock(blk, s, time_emb, cond_emb) ==
  LET scale_shift ==
        IF time_emb # Absent \/ cond_emb # Absent
        THEN LET emb == Linear([in |-> blk.mlp_dim, out |-> blk.out * 2],
                               CatEmb(time_emb, cond_emb))
             IN IF IsErr(emb) THEN emb ELSE Chunk2(emb, Len(emb))
        ELSE Absent
      h1 == LinearBlock([in |-> blk.in, out |-> blk.out], s, scale_shift)
      h2 == LinearBlock([in |-> blk.out, out |-> blk.out], h1, Absent)
      res == IF blk.in # blk.out THEN Linear([in |-> blk.in, out |-> blk.out], s)
             ELSE s
  IN IF IsErr(scale_shift) THEN scale_shift ELSE Broadcast(h2, res)

Block(blk, s, scale_shift) ==
  LET x == Conv2d(blk, s)
  IN IF scale_shift = Absent THEN x ELSE Broadcast(x, scale_shift)

ResnetBlock(blk, s, time_emb, class_emb) ==
  LET scale_shift ==
        IF blk.mlp_dim # None /\ (time_emb # Absent \/ class_emb # Absent)
        THEN LET emb == Linear([in |-> blk.mlp_dim, out |-> blk.out * 2],
                               CatEmb(time_emb, class_emb))
             IN IF IsErr(emb) THEN emb ELSE Chunk2(emb \o <<1, 1>>, 2)
        ELSE Absent
      h1 == Block([in |-> blk.in, out |-> blk.out], s, scale_shift)
      h2 == Block([in |-> blk.out, out |-> blk.out], h1, Absent)
      res == IF blk.in # blk.out THEN Conv2d([in |-> blk.in, out |-> blk.out], s)
             ELSE s
  IN IF IsErr(scale_shift) THEN scale_shift ELSE Broadcast(h2, res)

\* Attention and LinearAttention: qkv projection, heads, output projection
Attention(a, s) ==
  LET hidden_dim == a.dim_head * a.heads
      qkv == Conv2d([in |-> a.dim, out |-> hidden_dim * 3], s)
  IN IF IsErr(qkv) THEN qkv
     ELSE Conv2d([in |-> hidden_dim, out |-> a.dim],
                 [qkv EXCEPT ![2] = qkv[2] \div 3])

\* attn(x) + x
Residual(a, s) == Broadcast(Attention(a, s), s)

downsample_same(l, s) ==
  IF IsErr(s) THEN s
  ELSE IF Len(s) # 4 THEN ErrShape
  ELSE Conv2d([in |-> l.in * 4, out |-> l.out], <<s[1], s[2] * 4, s[3], s[4]>>)

\* Rearrange("b c (h p1) (w p2) -> b (c p1 p2) h w", p1=2, p2=2), nn.Conv2d
downsample(l, s) ==
  IF IsErr(s) THEN s
  ELSE IF Len(s) # 4 THEN ErrShape
  ELSE IF s[3] % 2 # 0 \/ s[4] % 2 # 0 THEN ErrShape
  ELSE Conv2d([in |-> l.in * 4, out |-> l.out],
              <<s[1], s[2] * 4, s[3] \div 2, s[4] \div 2>>)

\* nn.Upsample(scale_factor=2), nn.Conv2d
upsample(l, s) ==
  IF IsErr(s) THEN s
  ELSE IF Len(s) # 4 THEN ErrShape
  ELSE Conv2d(l, <<s[1], s[2], s[3] * 2, s[4] * 2>>)

\* the fourth module of a stage: downsample / upsample / plain nn.Conv2d
Resample(l, s) ==
  IF l.kind = "downsample" THEN downsample(l, s)
  ELSE IF l.kind = "upsample" THEN upsample(l, s)
  ELSE Conv2d(l, s)

\* ------------------------------------------------------- construction
\* Unet.__init__
Unet(a) ==
  LET init_dim == default(a.init_dim, a.dim)
      out_dim == default(a.out_dim, a.channels)
      N == Len(a.dim_mults)
      dims == <<init_dim>> \o [i \in 1..N |-> a.dim * a.dim_mults[i]]
      in_out == [i \in 1..N |-> <<dims[i], dims[i + 1]>>]
      time_dim == a.dim * 4
      fourier_dim == IF a.learned_sinusoidal_cond THEN LearnedSinusoidalDim + 1
                     ELSE a.dim
      is_cond == exists(a.num_classes)
      classes_dim == IF is_cond THEN a.dim * 4 ELSE None
      block_class(i, o) ==
        [in |-> i, out |-> o, mlp_dim |-> default(time_dim, 0) + default(classes_dim, 0)]
      attn_class(d, full) ==
        [dim |-> d, heads |-> AttnHeads, dim_head |-> AttnDimHead, full |-> full]
      num_resolutions == Len(in_out)
  IN [kind |-> "Unet",
      dim |-> a.dim,
      channels |-> a.channels,
      init_dim |-> init_dim,
      out_dim |-> out_dim,
      is_conditional_model |-> is_cond,
      cond_dim |-> a.num_classes,
      cond_drop_prob |-> IF is_cond THEN a.cond_drop_prob ELSE ProbSteps,
      dropout_p |-> 0,
      init_conv |-> [in |-> a.channels, out |-> init_dim],
      time_mlp |-> [learned |-> a.learned_sinusoidal_cond,
                    dim |-> IF a.learned_sinusoidal_cond THEN LearnedSinusoidalDim
                            ELSE a.dim,
                    lin1 |-> [in |-> fourier_dim, out |-> time_dim],
                    lin2 |-> [in |-> time_dim, out |-> time_dim]],
      emb_dim |-> a.dim,
      cond_mlp |-> [lin1 |-> [in |-> a.dim, out |-> a.dim * 4],
                    lin2 |-> [in |-> a.dim * 4, out |-> a.dim * 4]],
      downs |-> [i \in 1..N |->
                  LET in_dim == in_out[i][1]
                      o_dim == in_out[i][2]
                      is_last == (i - 1) >= (num_resolutions - 1)
                  IN [block1 |-> block_class(in_dim, in_dim),
                      block2 |-> block_class(in_dim, in_dim),
                      attn |-> attn_class(in_dim, a.full_attn[i]),
                      resample |-> [kind |-> IF ~is_last THEN "downsample" ELSE "conv",
                                    in |-> in_dim, out |-> o_dim]]],
      mid_block1 |-> block_class(dims[N + 1], dims[N + 1]),
      mid_attn |-> attn_class(dims[N + 1], TRUE),
      mid_block2 |-> block_class(dims[N + 1], dims[N + 1]),
      ups |-> [j \in 1..N |->
                  LET in_dim == Reverse(in_out)[j][1]
                      o_dim == Reverse(in_out)[j][2]
                      is_last == (j - 1) = (Len(in_out) - 1)
                  IN [block1 |-> block_class(o_dim + in_dim, o_dim),
                      block2 |-> block_class(o_dim + in_dim, o_dim),
                      attn |-> attn_class(o_dim, Reverse(a.full_attn)[j]),
                      resample |-> [kind |-> IF ~is_last THEN "upsample" ELSE "conv",
                                    in |-> o_dim, out |-> in_dim]]],
      final_res_block |-> block_class(a.dim * 2, a.dim),
      final_conv |-> [in |-> a.dim, out |-> out_dim]]

\* Unet.downsample_factor
downsample_factor(n) == Pow2(Len(n.downs) - 1)

\* LinearNetwork.__init__ (kind and dim as DiscreteLinearNet.__init__ passes them)
LinearNet(kind, dim, xdims, a) ==
  LET is_cond == exists(a.cond_dim)
      cond_embed_dim == IF is_cond THEN dim * 4 ELSE None
      hs == <<dim>> \o a.hidden_dims
  IN [kind |-> kind,
      dim |-> dim,
      xdims |-> xdims,
      is_conditional_model |-> is_cond,
      cond_dim |-> a.cond_dim,
      cond_drop_prob |-> IF is_cond THEN a.cond_drop_prob ELSE ProbSteps,
      dropout_p |-> a.dropout_p,
      time_mlp |-> [learned |-> TRUE, dim |-> SinDim,
                    lin1 |-> [in |-> SinDim + 1, out |-> TimeDim],
                    lin2 |-> [in |-> TimeDim, out |-> TimeDim]],
      emb_dim |-> dim,
      cond_mlp |-> [lin1 |-> [in |-> dim, out |-> dim * 4],
                    lin2 |-> [in |-> dim * 4, out |-> dim * 4]],
      blocks |-> [i \in 1..Len(a.hidden_dims) |->
                    [in |-> hs[i], out |-> hs[i + 1],
                     mlp_dim |-> default(TimeDim, 0) + default(cond_embed_dim, 0)]],
      final_proj |-> [in |-> hs[Len(hs)], out |-> dim]]

LinearNetwork(a) == LinearNet("LinearNetwork", a.dim, <<a.dim>>, a)

\* DiscreteLinearNet.__init__
DiscreteLinearNet(a) == LinearNet("DiscreteLinearNet", a.dim * a.K, <<a.dim, a.K>>, a)

\* --------------------------------------------------------------- state
VARIABLES
  net,      \* the constructed network (immutable after construction)
  call,     \* the arguments of the call in progress
  pc,       \* where the call stands
  pass,     \* forward_with_cond_scale: which forward evaluation runs (1 or 2)
  fwds,     \* cond_drop_prob of each forward evaluation the call started
  p,        \* forward: the local cond_drop_prob
  x,        \* forward: shape of x
  time,     \* forward: shape of time
  c,        \* forward: shape of c (Absent when None)
  sel,      \* forward: per row of the class embedding, the class or NullEmb
  h,        \* Unet.forward: the skip stack
  r,        \* Unet.forward: shape of r
  i,        \* index of the loop in progress
  rng,      \* random values drawn by the forward evaluation
  ran,      \* layers executed by the forward evaluation, in order
  pushes,   \* h.append calls of the forward evaluation
  pops,     \* h.pop calls of the forward evaluation
  out,      \* what the forward evaluation returned
  logits,   \* forward_with_cond_scale: the first evaluation's value
  result,   \* what the call returned
  err       \* the exception that ended the call

vars == <<net, call, pc, pass, fwds, p, x, time, c, sel, h, r, i, rng, ran,
          pushes, pops, out, logits, result, err>>

frame == <<p, x, time, c, sel, h, r, i, rng, ran, pushes, pops, out>>

NoCall ==
  [op |-> "none", batch |-> 0, x |-> <<>>, time |-> <<>>,
   cond |-> [given |-> FALSE, shape |-> <<>>, vals |-> <<>>],
   cond_drop_prob |-> None, cond_scale |-> 1, rescaled_phi |-> 0]

NoRng == [labels |-> <<>>, u |-> <<>>, noise |-> 0]
NoValue == [kind |-> "none", shape |-> <<>>, val |-> <<>>, ref |-> <<>>, phi |-> 0]

\* ------------------------------------------------------ configurations
Probs == 0..ProbSteps
Mults == {1, 2}
DimMults == SeqsUpTo(Mults, MaxStages) \ {<<>>}
HiddenDims == SeqsUpTo({128}, MaxHidden)

\* the default dim_mults, [1, 2, 2], cut to n stages or extended by its last entry
DefaultMults(n) == [k \in 1..n |-> IF k = 1 THEN 1 ELSE 2]

\* how many of dim, init_dim, out_dim and learned_sinusoidal_cond leave the
\* plainest construction (an even dim, the defaults)
Departures(a) ==
  (IF a.dim # 4 THEN 1 ELSE 0) + (IF a.init_dim # None THEN 1 ELSE 0)
  + (IF a.out_dim # None THEN 1 ELSE 0)
  + (IF a.learned_sinusoidal_cond THEN 1 ELSE 0)

\* The constructions of Unet that are explored: every dim_mults with at most
\* one departure for the unconditional network, the default multipliers and
\* a default cond_drop_prob of 0 or about 1/2 for the conditional one.
UnetArgs ==
  {a \in [dim : {4, 5}, dim_mults : DimMults, channels : {3},
          init_dim : {None, 6}, out_dim : {None, 1},
          num_classes : {None, NumClasses}, cond_drop_prob : Probs,
          learned_sinusoidal_cond : BOOLEAN] :
     IF a.num_classes = None
     THEN a.cond_drop_prob = 0 /\ Departures(a) <= 1
     ELSE /\ a.dim_mults = DefaultMults(Len(a.dim_mults))
          /\ Departures(a) = 0
          /\ a.cond_drop_prob \in {0, ProbSteps \div 2}}

\* full attention in the last stage only, as in the default (False, False, True)
FullAttn(a) == [k \in 1..Len(a.dim_mults) |-> k = Len(a.dim_mults)]

\* The constructions of LinearNetwork and DiscreteLinearNet that are explored:
\* at most one departure from LinearNetwork(dim=2, hidden_dims=[128]*MaxHidden,
\* cond_dim=NumClasses, cond_drop_prob=1/2, dropout_p=0).
LinearDepartures(a) ==
  (IF a.K # 0 THEN 1 ELSE 0) + (IF Len(a.hidden_dims) # MaxHidden THEN 1 ELSE 0)
  + (IF a.cond_dim = None THEN 1 ELSE 0)
  + (IF a.cond_dim # None /\ a.cond_drop_prob # ProbSteps \div 2 THEN 1 ELSE 0)
  + (IF a.dropout_p # 0 THEN 1 ELSE 0)

\* K = 0 stands for LinearNetwork, which has no K
LinearArgs ==
  {a \in [dim : {2}, K : {0, 1, 2}, hidden_dims : HiddenDims,
          cond_dim : {None, NumClasses}, cond_drop_prob : Probs,
          dropout_p : {0, 1}] :
     /\ a.cond_dim = None => a.cond_drop_prob = 0
     /\ LinearDepartures(a) <= 1}

Init ==
  /\ \/ \E a \in UnetArgs :
          net = Unet([dim |-> a.dim, dim_mults |-> a.dim_mults,
                      channels |-> a.channels, init_dim |-> a.init_dim,
                      out_dim |-> a.out_dim, num_classes |-> a.num_classes,
                      cond_drop_prob |-> a.cond_drop_prob,
                      learned_sinusoidal_cond |-> a.learned_sinusoidal_cond,
                      full_attn |-> FullAttn(a)])
     \/ \E a \in LinearArgs :
          net = IF a.K = 0 THEN LinearNetwork(a) ELSE DiscreteLinearNet(a)
  /\ call = NoCall
  /\ pc = "idle"
  /\ pass = 0
  /\ fwds = <<>>
  /\ p = None
  /\ x = <<>>
  /\ time = <<>>
  /\ c = Absent
  /\ sel = <<>>
  /\ h = <<>>
  /\ r = <<>>
  /\ i = 0
  /\ rng = NoRng
  /\ ran = <<>>
  /\ pushes = 0
  /\ pops = 0
  /\ out = NoValue
  /\ logits = NoValue
  /\ result = NoValue
  /\ err = "none"

\* ------------------------------------------------------------- inputs
\* the exceptions of the code, and the spec's names for two of them
ValueError == "ValueError"
AssertionError == "AssertionError"
RuntimeError == "RuntimeError"
ZeroDivisionError == "ZeroDivisionError"
IndexError == "IndexError"
ShapeMismatch == ValueError
DimensionMismatch == AssertionError

ErrorOf(s) == IF s = ZeroDivShape THEN ZeroDivisionError ELSE RuntimeError

\* data of the shape the network was built for
DataShapes(n, B) ==
  IF n.kind = "Unet"
  THEN {<<B, n.channels, H, W>> : H \in 1..MaxHW, W \in 1..MaxHW}
  ELSE {<<B>> \o n.xdims}

\* class labels: none, (B,), (B,1), (B,2), (B,1,1) and a 0-d tensor
CondArgs(n, B) ==
  {[given |-> FALSE, shape |-> <<>>, vals |-> <<>>]}
  \cup
  (IF n.is_conditional_model
   THEN {[given |-> TRUE, shape |-> sh, vals |-> v] :
           sh \in {<<B>>, <<B, 1>>}, v \in [1..B -> 0..(n.cond_dim - 1)]}
        \cup {[given |-> TRUE, shape |-> sh, vals |-> [k \in 1..B |-> 0]] :
                sh \in {<<B, 2>>, <<B, 1, 1>>}}
        \cup {[given |-> TRUE, shape |-> <<>>, vals |-> <<v>>] :
                v \in 0..(n.cond_dim - 1)}
   ELSE {[given |-> TRUE, shape |-> <<B>>, vals |-> [k \in 1..B |-> 0]]})

Ops(n) ==
  {[op |-> "forward", cond_drop_prob |-> q, cond_scale |-> 1, rescaled_phi |-> 0] :
     q \in (IF n.is_conditional_model THEN {None} \cup Probs ELSE {None, 0})}
  \cup
  {[op |-> "forward_with_cond_scale", cond_drop_prob |-> None,
    cond_scale |-> sc, rescaled_phi |-> phi] :
     sc \in 1..MaxCondScale, phi \in {0, ProbSteps}}

\* The calls that are explored vary either the shapes of data and time (with
\* no labels, through forward) or the labels and the operation (with one
\* time value per sample and, for Unet, the smallest image that fits the
\* stages or a 1 x 1 image).
ShapeCall(cl) ==
  ~cl.cond.given /\ cl.op = "forward" /\ cl.cond_drop_prob = None

CondCall(n, cl) ==
  /\ cl.time = <<cl.batch>>
  /\ n.kind = "Unet" =>
       \E d \in {1, Pow2(Len(n.downs) - 1)} : cl.x[3] = d /\ cl.x[4] = d

Explored(n, cl) == ShapeCall(cl) \/ CondCall(n, cl)

\* ------------------------------------------------------ conditioning
\* lines 293-320 and 792-821, given the random values rl (t.randint) and
\* u (t.rand, in units of 1/ProbSteps)
CondLabels(n, batch, cond, rl) ==
  IF ~cond.given THEN [given |-> TRUE, shape |-> <<batch>>, vals |-> rl] ELSE cond

CondProbFalsy(n, cond, parg) ==
  LET v == IF ~cond.given THEN ProbSteps ELSE parg
  IN IF v = None \/ v = 0 THEN n.cond_drop_prob ELSE v

CondProbUnforced(n, cond, parg) == default(parg, n.cond_drop_prob)

\* lines 294-296 and 307: cond_drop_prob = 1.0 without labels, else the
\* argument, else the configured default
CondProb(n, cond, parg) ==
  default(IF ~cond.given THEN ProbSteps ELSE parg, n.cond_drop_prob)

\* cond.ndim > 1 and not (cond.ndim == 2 and cond.size(-1) == 1)
BadClassShape(sh) == Len(sh) > 1 /\ ~(Len(sh) = 2 /\ sh[Len(sh)] = 1)

\* cond.squeeze(-1) when cond.ndim > 1
Squeezed(sh) == IF Len(sh) > 1 THEN SubSeq(sh, 1, Len(sh) - 1) ELSE sh

keep_mask_le(batch, u, prob) == [k \in 1..batch |-> u[k] <= ProbSteps - prob]

\* keep_mask = t.rand((batch,)) < 1 - cond_drop_prob
keep_mask(batch, u, prob) == [k \in 1..batch |-> u[k] < ProbSteps - prob]

\* t.where(keep_mask[:, None], cond_emb, null_classes_emb): the row kept
Where(batch, mask, vals) ==
  [k \in 1..batch |->
     IF mask[k] THEN vals[IF Len(vals) = 1 THEN 1 ELSE k] ELSE NullEmb]

Conditioning(n, batch, cond, parg, rl, u) ==
  LET classes == CondLabels(n, batch, cond, rl)
      prob == CondProb(n, cond, parg)
      sh == Squeezed(classes.shape)
      cond_emb == Embedding(n.emb_dim, sh)
      dropped == Broadcast(Broadcast(<<batch, 1>>, cond_emb), <<batch, n.emb_dim>>)
      emb == IF prob > 0 THEN dropped ELSE cond_emb
  IN [p |-> prob,
      c |-> cond_mlp(n.cond_mlp, emb),
      sel |-> IF prob > 0 THEN Where(batch, keep_mask(batch, u, prob), classes.vals)
              ELSE classes.vals]

\* the random values the conditioning draws
RandLabels(n, batch, cond) ==
  IF n.is_conditional_model /\ ~cond.given
  THEN [1..batch -> 0..(n.cond_dim - 1)] ELSE {<<>>}

RandUniform(n, batch, cond, parg) ==
  IF /\ n.is_conditional_model
     /\ ~BadClassShape(CondLabels(n, batch, cond, <<>>).shape)
     /\ CondProb(n, cond, parg) > 0
  THEN [1..batch -> 0..(ProbSteps - 1)] ELSE {<<>>}

Layer(op, stage) == [op |-> op, stage |-> stage]

\* the layers the conditioning runs, in order
CondLayers(n, cond, prob) ==
  (IF ~cond.given THEN <<Layer("randint", 0)>> ELSE <<>>)
  \o <<Layer("class_emb", 0)>>
  \o (IF prob > 0 THEN <<Layer("rand", 0), Layer("where", 0)>> ELSE <<>>)
  \o <<Layer("cond_mlp", 0)>>

\* -------------------------------------------------------------- values
\* One sample's output: the network's response to that sample's data, time
\* and conditioning row and to the dropout noise (an injective stand-in for
\* the learned function), plus the residual data.
Response(xk, tk, e, d) == xk + 2 * tk + 10 * (e + 3) + 100 * d

UsesEmbeddings(n) == n.kind = "Unet" \/ Len(n.blocks) > 0

TimeVal(cl, k) == IF cl.time = <<1>> THEN 1 ELSE k

OutVal(n, cl, cshape, rows, noise) ==
  [k \in 1..cl.batch |->
     IF UsesEmbeddings(n)
     THEN Response(k, TimeVal(cl, k), IF cshape = Absent THEN None ELSE rows[k], noise)
     ELSE Response(k, 0, None, 0)]

Tensor(shape, val) ==
  [kind |-> "tensor", shape |-> shape, val |-> val, ref |-> <<>>, phi |-> 0]

\* ------------------------------------------------------------- actions
Entry(n) ==
  IF n.kind = "Unet" THEN "u_cond"
  ELSE IF n.kind = "LinearNetwork" THEN "l_time" ELSE "d_flat"

\* self.forward(*args, cond_drop_prob=parg, **kwargs) is entered
EnterForward(cl, parg) ==
  /\ pc' = Entry(net)
  /\ p' = parg
  /\ x' = cl.x
  /\ time' = cl.time
  /\ c' = Absent
  /\ sel' = <<>>
  /\ h' = <<>>
  /\ r' = <<>>
  /\ i' = 0
  /\ rng' = NoRng
  /\ ran' = <<>>
  /\ pushes' = 0
  /\ pops' = 0
  /\ out' = NoValue

\* an exception leaves forward and the call
Raise(e) ==
  /\ pc' = "error"
  /\ err' = e
  /\ UNCHANGED <<net, call, pass, fwds, logits, result>>

Step(next) ==
  /\ pc' = next
  /\ UNCHANGED <<net, call, pass, fwds, logits, result, err>>

GuidedDropProbsSame == <<ProbSteps, ProbSteps>>

\* lines 85 and 89: cond_drop_prob=0.0, then cond_drop_prob=1.0
GuidedDropProbs == <<0, ProbSteps>>

\* the cond_drop_prob of the first evaluation of forward
FirstDropProb(o) ==
  IF o.op = "forward" THEN o.cond_drop_prob ELSE GuidedDropProbs[1]

\* a caller calls forward or forward_with_cond_scale
Call ==
  /\ pc = "idle"
  /\ \E B \in 1..MaxBatch :
       \E xs \in DataShapes(net, B), ts \in {<<B>>, <<1>>},
          cd \in CondArgs(net, B), o \in Ops(net) :
         /\ call' = [op |-> o.op, batch |-> B, x |-> xs, time |-> ts, cond |-> cd,
                     cond_drop_prob |-> o.cond_drop_prob,
                     cond_scale |-> o.cond_scale, rescaled_phi |-> o.rescaled_phi]
         /\ Explored(net, call')
         /\ EnterForward(call', FirstDropProb(o))
         /\ fwds' = <<FirstDropProb(o)>>
  /\ pass' = 1
  /\ logits' = NoValue
  /\ result' = NoValue
  /\ err' = "none"
  /\ UNCHANGED net

\* lines 293-320 / 792-821, shared by UnetCond and LinearCond
CondStep(next) ==
  IF ~net.is_conditional_model
  THEN /\ c' = Absent
       /\ Step(next)
       /\ UNCHANGED <<p, sel, rng, ran>>
  ELSE \E rl \in RandLabels(net, call.batch, call.cond),
          u \in RandUniform(net, call.batch, call.cond, p) :
         LET classes == CondLabels(net, call.batch, call.cond, rl)
             cnd == Conditioning(net, call.batch, call.cond, p, rl, u)
         IN IF BadClassShape(classes.shape)
            THEN /\ Raise(ValueError)
                 /\ UNCHANGED <<p, c, sel, rng, ran>>
            ELSE /\ p' = cnd.p
                 /\ c' = cnd.c
                 /\ sel' = cnd.sel
                 /\ rng' = [rng EXCEPT !.labels = rl, !.u = u]
                 /\ ran' = ran \o CondLayers(net, call.cond, cnd.p)
                 /\ IF IsErr(cnd.c) THEN Raise(ErrorOf(cnd.c)) ELSE Step(next)

\* Unet.forward, lines 788-821
UnetCond ==
  /\ pc = "u_cond"
  /\ CondStep("u_assert")
  /\ UNCHANGED <<x, time, h, r, i, pushes, pops, out>>

\* Unet.forward, lines 825-827
UnetAssert ==
  /\ pc = "u_assert"
  /\ IF \A d \in {x[Len(x) - 1], x[Len(x)]} : d % downsample_factor(net) = 0
     THEN Step("u_init")
     ELSE Raise(AssertionError)
  /\ UNCHANGED frame

\* Unet.forward, lines 829-830
UnetInitConv ==
  /\ pc = "u_init"
  /\ LET s == Conv2d(net.init_conv, x)
     IN /\ x' = s
        /\ r' = s
        /\ ran' = Append(ran, Layer("init_conv", 0))
        /\ IF IsErr(s) THEN Raise(ErrorOf(s)) ELSE Step("u_time")
  /\ UNCHANGED <<p, time, c, sel, h, i, rng, pushes, pops, out>>

\* Unet.forward, lines 832-836
UnetTime ==
  /\ pc = "u_time"
  /\ LET expanded == IF time = <<1>> THEN <<call.batch>> ELSE time
         s == time_mlp(net.time_mlp, expanded)
     IN /\ time' = s
        /\ ran' = Append(ran, Layer("time_mlp", 0))
        /\ IF IsErr(s) THEN Raise(ErrorOf(s))
           ELSE Step("u_down")
  /\ h' = <<>>
  /\ i' = 1
  /\ UNCHANGED <<p, x, c, sel, r, rng, pushes, pops, out>>

\* how many of the shapes, each computed from the one before, are tensors
Good(shapes) == Cardinality({k \in 1..Len(shapes) : ~IsErr(shapes[k])})

\* the first n of the names, as layers of the stage
Started(names, n, stage) ==
  [k \in 1..(IF n < Len(names) THEN n ELSE Len(names)) |-> Layer(names[k], stage)]

Entry2(shape, stage, slot) == [shape |-> shape, stage |-> stage, slot |-> slot]

PushedOnce(s1, s3, good, stage) ==
  IF good >= 1 THEN <<Entry2(s1, stage, 1)>> ELSE <<>>

\* h.append(x) after block1 and after attn, lines 840 and 844, when the
\* first `good` layers of the stage ran
Pushed(s1, s3, good, stage) ==
  (IF good >= 1 THEN <<Entry2(s1, stage, 1)>> ELSE <<>>)
  \o (IF good >= 3 THEN <<Entry2(s3, stage, 2)>> ELSE <<>>)

\* Unet.forward, lines 838-846: one iteration of the loop over self.downs
UnetDown ==
  /\ pc = "u_down"
  /\ i <= Len(net.downs)
  /\ LET st == net.downs[i]
         s1 == ResnetBlock(st.block1, x, time, c)
         s2 == ResnetBlock(st.block2, s1, time, c)
         s3 == Residual(st.attn, s2)
         s4 == Resample(st.resample, s3)
         good == Good(<<s1, s2, s3, s4>>)
         pushed == Pushed(s1, s3, good, i)
     IN /\ x' = s4
        /\ h' = h \o pushed
        /\ pushes' = pushes + Len(pushed)
        /\ ran' = ran \o Started(<<"block1", "block2", "attn", "resample">>, good + 1, i)
        /\ IF IsErr(s4) THEN /\ Raise(ErrorOf(s4))
                             /\ i' = i
           ELSE /\ Step(IF i = Len(net.downs) THEN "u_mid" ELSE "u_down")
                /\ i' = i + 1
  /\ UNCHANGED <<p, time, c, sel, r, rng, pops, out>>

\* Unet.forward, lines 848-850
UnetMid ==
  /\ pc = "u_mid"
  /\ LET s1 == ResnetBlock(net.mid_block1, x, time, c)
         s2 == Residual(net.mid_attn, s1)
         s3 == ResnetBlock(net.mid_block2, s2, time, c)
     IN /\ x' = s3
        /\ ran' = ran \o Started(<<"mid_block1", "mid_attn", "mid_block2">>,
                                 Good(<<s1, s2, s3>>) + 1, 0)
        /\ IF IsErr(s3) THEN Raise(ErrorOf(s3)) ELSE Step("u_up")
  /\ i' = 1
  /\ UNCHANGED <<p, time, c, sel, h, r, rng, pushes, pops, out>>

\* h.pop() on a stack of n entries, as the k-th pop of a stage
Top(stack, k) == stack[Len(stack) + 1 - k]

\* Unet.forward, lines 852-860: one iteration of the loop over self.ups
UnetUp ==
  /\ pc = "u_up"
  /\ i <= Len(net.ups)
  /\ LET st == net.ups[i]
         n == Len(h)
         s1 == IF n >= 1 THEN ResnetBlock(st.block1, Cat(x, Top(h, 1).shape, 2), time, c)
               ELSE ErrShape
         s2 == IF n >= 2 THEN ResnetBlock(st.block2, Cat(s1, Top(h, 2).shape, 2), time, c)
               ELSE ErrShape
         s3 == Residual(st.attn, s2)
         s4 == Resample(st.resample, s3)
         good == Good(<<s1, s2, s3, s4>>)
         popped == IF n = 0 THEN 0
                   ELSE IF IsErr(s1) \/ n = 1 THEN 1 ELSE 2
     IN /\ x' = s4
        /\ h' = SubSeq(h, 1, n - popped)
        /\ pops' = pops + popped
        /\ ran' = ran \o Started(<<"block1", "block2", "attn", "resample">>,
                                 IF n = 0 THEN 0 ELSE good + 1, Len(net.ups) + 1 - i)
        /\ IF n = 0 \/ (n = 1 /\ ~IsErr(s1))
           THEN /\ Raise(IndexError)
                /\ i' = i
           ELSE IF IsErr(s4)
           THEN /\ Raise(ErrorOf(s4))
                /\ i' = i
           ELSE /\ Step(IF i = Len(net.ups) THEN "u_final" ELSE "u_up")
                /\ i' = i + 1
  /\ UNCHANGED <<p, time, c, sel, r, rng, pushes, out>>

\* Unet.forward, lines 862-864
UnetFinal ==
  /\ pc = "u_final"
  /\ LET s1 == ResnetBlock(net.final_res_block, Cat(x, r, 2), time, c)
         s2 == Conv2d(net.final_conv, s1)
     IN /\ x' = s2
        /\ ran' = ran \o Started(<<"final_res_block", "final_conv">>,
                                 Good(<<s1, s2>>) + 1, 0)
        /\ IF IsErr(s2) THEN /\ Raise(ErrorOf(s2))
                             /\ out' = out
           ELSE /\ Step("ret")
                /\ out' = Tensor(s2, OutVal(net, call, c, sel, rng.noise))
  /\ UNCHANGED <<p, time, c, sel, h, r, i, rng, pushes, pops>>

\* DiscreteLinearNet.forward, line 376: x.flatten(1)
DiscreteFlatten ==
  /\ pc = "d_flat"
  /\ x' = <<x[1], x[2] * x[3]>>
  /\ Step("l_time")
  /\ UNCHANGED <<p, time, c, sel, h, r, i, rng, ran, pushes, pops, out>>

\* LinearNetwork.forward, lines 285-289
LinearTime ==
  /\ pc = "l_time"
  /\ LET expanded == IF time = <<1>> THEN <<x[1]>> ELSE time
         s == time_mlp(net.time_mlp, Unsqueeze1(expanded))
     IN /\ time' = s
        /\ ran' = Append(ran, Layer("time_mlp", 0))
        /\ IF IsErr(s) THEN Raise(ErrorOf(s)) ELSE Step("l_cond")
  /\ UNCHANGED <<p, x, c, sel, h, r, i, rng, pushes, pops, out>>

\* LinearNetwork.forward, lines 293-322
LinearCond ==
  /\ pc = "l_cond"
  /\ CondStep(IF Len(net.blocks) = 0 THEN "l_final" ELSE "l_blocks")
  /\ r' = x
  /\ i' = 1
  /\ UNCHANGED <<x, time, h, pushes, pops, out>>

DropoutNoiseAlways(n) == {0, 1}

\* nn.Dropout(dropout_p) in LinearBlock: the noise one block can add
DropoutNoise(n) == IF n.dropout_p > 0 THEN {0, 1} ELSE {0}

\* LinearNetwork.forward, lines 323-324: one iteration of the loop over self.blocks
LinearBlocks ==
  /\ pc = "l_blocks"
  /\ i <= Len(net.blocks)
  /\ \E d \in DropoutNoise(net) :
       LET s == LinearResnetBlock(net.blocks[i], x, time, c)
       IN /\ x' = s
          /\ ran' = Append(ran, Layer("block", i))
          /\ rng' = [rng EXCEPT !.noise = @ + d]
          /\ IF IsErr(s) THEN /\ Raise(ErrorOf(s))
                              /\ i' = i
             ELSE /\ Step(IF i = Len(net.blocks) THEN "l_final" ELSE "l_blocks")
                  /\ i' = i + 1
  /\ UNCHANGED <<p, time, c, sel, h, r, pushes, pops, out>>

\* LinearNetwork.forward, lines 325-326
LinearFinal ==
  /\ pc = "l_final"
  /\ LET s == Broadcast(Linear(net.final_proj, x), r)
     IN /\ x' = s
        /\ ran' = Append(ran, Layer("final_proj", 0))
        /\ IF IsErr(s) THEN /\ Raise(ErrorOf(s))
                            /\ out' = out
           ELSE IF net.kind = "DiscreteLinearNet"
           THEN /\ Step("d_view")
                /\ out' = out
           ELSE /\ Step("ret")
                /\ out' = Tensor(s, OutVal(net, call, c, sel, rng.noise))
  /\ UNCHANGED <<p, time, c, sel, h, r, i, rng, pushes, pops>>

\* DiscreteLinearNet.forward, line 377: .view(x.shape)
DiscreteView ==
  /\ pc = "d_view"
  /\ x' = call.x
  /\ out' = Tensor(call.x, OutVal(net, call, c, sel, rng.noise))
  /\ Step("ret")
  /\ UNCHANGED <<p, time, c, sel, h, r, i, rng, ran, pushes, pops>>

\* forward returns to the caller that called it directly
ForwardReturn ==
  /\ pc = "ret"
  /\ call.op = "forward"
  /\ result' = out
  /\ pc' = "done"
  /\ UNCHANGED <<net, call, pass, fwds, logits, err>>
  /\ UNCHANGED frame

\* line 86: if cond_scale == 1.0
FastPathNever(cond_scale) == FALSE

FastPath(cond_scale) == cond_scale = 1

\* forward_with_cond_scale, lines 85-89
GuidanceCond ==
  /\ pc = "ret"
  /\ call.op = "forward_with_cond_scale"
  /\ pass = 1
  /\ logits' = out
  /\ IF FastPath(call.cond_scale)
     THEN /\ result' = out
          /\ pc' = "done"
          /\ UNCHANGED <<pass, fwds>>
          /\ UNCHANGED frame
     ELSE /\ EnterForward(call, GuidedDropProbs[2])
          /\ pass' = 2
          /\ fwds' = Append(fwds, GuidedDropProbs[2])
          /\ result' = result
  /\ UNCHANGED <<net, call, err>>

ScaledSwapped(lg, null_logits, cond_scale) ==
  [k \in 1..Len(lg) |-> lg[k] + (null_logits[k] - lg[k]) * cond_scale]

\* null_logits + (logits - null_logits) * cond_scale
Scaled(lg, null_logits, cond_scale) ==
  [k \in 1..Len(lg) |-> null_logits[k] + (lg[k] - null_logits[k]) * cond_scale]

\* forward_with_cond_scale, lines 89-103
GuidanceNull ==
  /\ pc = "ret"
  /\ call.op = "forward_with_cond_scale"
  /\ pass = 2
  /\ LET scaled_logits == Scaled(logits.val, out.val, call.cond_scale)
         shape == Broadcast(out.shape, logits.shape)
     IN result' = IF call.rescaled_phi = 0
                  THEN Tensor(shape, scaled_logits)
                  ELSE [kind |-> "rescaled", shape |-> shape, val |-> scaled_logits,
                        ref |-> logits.val, phi |-> call.rescaled_phi]
  /\ pc' = "done"
  /\ UNCHANGED <<net, call, pass, fwds, logits, err>>
  /\ UNCHANGED frame

\* the call is over; the caller may call again
Finish ==
  /\ pc \in {"done", "error"}
  /\ pc' = "idle"
  /\ call' = NoCall
  /\ pass' = 0
  /\ fwds' = <<>>
  /\ p' = None
  /\ x' = <<>>
  /\ time' = <<>>
  /\ c' = Absent
  /\ sel' = <<>>
  /\ h' = <<>>
  /\ r' = <<>>
  /\ i' = 0
  /\ rng' = NoRng
  /\ ran' = <<>>
  /\ pushes' = 0
  /\ pops' = 0
  /\ out' = NoValue
  /\ logits' = NoValue
  /\ result' = NoValue
  /\ err' = "none"
  /\ UNCHANGED net

Next ==
  \/ Call
  \/ UnetCond
  \/ UnetAssert
  \/ UnetInitConv
  \/ UnetTime
  \/ UnetDown
  \/ UnetMid
  \/ UnetUp
  \/ UnetFinal
  \/ DiscreteFlatten
  \/ LinearTime
  \/ LinearCond
  \/ LinearBlocks
  \/ LinearFinal
  \/ DiscreteView
  \/ ForwardReturn
  \/ GuidanceCond
  \/ GuidanceNull
  \/ Finish

Spec == Init /\ [][Next]_vars

\* -------------------------------------------------------------- claims
Finished == pc \in {"done", "error"}
IsUnet == net.kind = "Unet"
Conditional == net.is_conditional_model
Batch == call.batch

\* 2^(N-1) for the N stages the Unet was built with
Factor == Pow2(Len(net.downs) - 1)
Divisible == call.x[3] % Factor = 0 /\ call.x[4] % Factor = 0

\* labels absent, or of shape (B,) or (B,1)
LabelsOk == ~call.cond.given \/ call.cond.shape \in {<<Batch>>, <<Batch, 1>>}
ValidInput == LabelsOk /\ call.time = <<Batch>> /\ (IsUnet => Divisible)

AllNull == [k \in 1..Batch |-> NullEmb]

\* C1: for every constructed network and every valid input (for Unet: height
\* and width divisible by 2^(N-1)), forward returns a tensor of exactly the
\* shape of the data argument, with or without labels and for every dropout
\* probability.
C1_ShapeInvariance ==
  (Finished /\ call.op = "forward" /\ ValidInput)
     => (pc = "done" /\ result.kind = "tensor" /\ result.shape = call.x)

Guided == call.op = "forward_with_cond_scale"
Direct == call.op = "forward"
LabelsGiven == Conditional /\ call.cond.given /\ LabelsOk

\* the output of a network whose k-th sample is conditioned on rows[k]
Expected(rows) ==
  [k \in 1..Batch |->
     IF IsUnet \/ Len(net.blocks) > 0
     THEN k + 2 * (IF call.time = <<1>> THEN 1 ELSE k) + 10 * (rows[k] + 3)
          + 100 * rng.noise
     ELSE k + 10 * (None + 3)]

\* C2: forward_with_cond_scale with cond_scale = 1 evaluates forward exactly
\* once, with cond_drop_prob = 0, and returns that evaluation's value
\* unchanged whatever rescaled_phi is: with labels supplied every sample is
\* conditioned on its own label.
C2_GuidanceIdentity ==
  (Guided /\ call.cond_scale = 1) =>
     /\ pass = 1
     /\ fwds = <<0>>
     /\ pc = "done" =>
          /\ result = out
          /\ result.kind = "tensor"
          /\ LabelsGiven => (p = 0 /\ result.val = Expected(call.cond.vals))

C2_Witness ==
  /\ pc = "done" /\ Guided /\ call.cond_scale = 1 /\ call.rescaled_phi # 0
  /\ LabelsGiven /\ Batch = 2 /\ call.cond.vals[1] # call.cond.vals[2]

\* C3: on a conditional network, forward with cond_drop_prob = 1 and labels of
\* a valid shape gives every sample the null embedding, and the conditioning
\* and the output are the same for every other in-range label batch of that
\* shape under the same random draws.
C3_FullDropout ==
  (pc = "done" /\ Direct /\ LabelsGiven /\ call.cond_drop_prob = ProbSteps) =>
     /\ sel = AllNull
     /\ result.val = Expected(AllNull)
     /\ \A v \in [1..Batch -> 0..(net.cond_dim - 1)] :
          LET other == Conditioning(net, Batch, [call.cond EXCEPT !.vals = v],
                                    call.cond_drop_prob, rng.labels, rng.u)
          IN other.sel = sel /\ other.c = c

C3_Witness ==
  /\ pc = "done" /\ Direct /\ LabelsGiven /\ call.cond_drop_prob = ProbSteps
  /\ Batch = 2 /\ call.cond.vals[1] # call.cond.vals[2] /\ rng.u[1] = 0

\* C4: a Unet of N stages rejects with DimensionMismatch every input whose
\* height or width is not divisible by 2^(N-1) and runs to completion on
\* every input whose height and width are (labels and time well-formed).
C4_DownsamplePrecondition ==
  (IsUnet /\ Finished /\ LabelsOk /\ call.time = <<Batch>>) =>
     IF Divisible THEN pc = "done"
     ELSE pc = "error" /\ err = DimensionMismatch

\* C5: in every Unet.forward the skip stack starts empty, holds exactly the
\* maps pushed and not yet popped, is never popped when empty, has received
\* two maps per stage when the encoder ends, and is empty with as many pops
\* as pushes when forward returns; nothing is left between calls.
C5_SkipStackBalance ==
  /\ Len(h) = pushes - pops
  /\ err # IndexError
  /\ pc \in {"idle", "u_cond", "u_assert", "u_init", "u_time"} =>
       (h = <<>> /\ pushes = 0 /\ pops = 0)
  /\ (IsUnet /\ pc = "u_mid") => (pushes = 2 * Len(net.downs) /\ pops = 0)
  /\ (IsUnet /\ pc \in {"u_final", "ret", "done"}) =>
       (h = <<>> /\ pushes = 2 * Len(net.downs) /\ pops = pushes)

C5_Witness ==
  /\ IsUnet /\ pc = "done" /\ Len(net.downs) = MaxStages
  /\ pushes = 2 * MaxStages /\ pops = 2 * MaxStages /\ h = <<>>

\* C6: on a conditional network, labels of shape (B,1) give the conditioning
\* that the same values in shape (B,) give, and labels of any other shape
\* that is not 1-D make forward fail with ShapeMismatch and return nothing.
C6_LabelShapes ==
  (Finished /\ Conditional /\ call.cond.given) =>
     IF call.cond.shape \in {<<Batch>>, <<Batch, 1>>}
     THEN /\ err # ShapeMismatch
          /\ pc = "done" =>
               LET flat == Conditioning(net, Batch, [call.cond EXCEPT !.shape = <<Batch>>],
                                        fwds[Len(fwds)], rng.labels, rng.u)
               IN flat.c = c /\ flat.sel = sel
     ELSE pc = "error" /\ err = ShapeMismatch /\ result = NoValue

\* C7: forward_with_cond_scale with cond_scale # 1 evaluates forward exactly
\* twice on the call's arguments, with cond_drop_prob = 0 and then = 1, and
\* combines them as uncond + (cond - uncond) * cond_scale; with
\* rescaled_phi = 0 that combination is returned as it is.
C7_TwoPassGuidance ==
  (Guided /\ call.cond_scale # 1) =>
     /\ fwds \in {<<0>>, <<0, ProbSteps>>}
     /\ Len(fwds) = pass
     /\ pc = "done" =>
          /\ fwds = <<0, ProbSteps>>
          /\ \A k \in 1..Batch :
               result.val[k] = out.val[k] + (logits.val[k] - out.val[k]) * call.cond_scale
          /\ call.rescaled_phi = 0 => (result.kind = "tensor" /\ result.ref = <<>>)
          /\ (LabelsGiven /\ net.dropout_p = 0) =>
               (logits.val = Expected(call.cond.vals) /\ out.val = Expected(AllNull))

C7_Witness ==
  /\ pc = "done" /\ Guided /\ call.cond_scale = MaxCondScale /\ call.rescaled_phi = 0
  /\ LabelsGiven /\ logits.val # out.val /\ result.val # logits.val

\* C8: on a conditional network called without labels, the conditioning
\* draws one label per sample, uses dropout probability 1 whatever the
\* caller passed and whatever the default is, and gives every sample the
\* null embedding, so the output is that of the null conditioning.
C8_NoLabelsForcesDropout ==
  (Conditional /\ call.op # "none" /\ ~call.cond.given /\ c # Absent) =>
     /\ Len(rng.labels) = Batch
     /\ p = ProbSteps
     /\ sel = AllNull
     /\ pc = "done" => out.val = Expected(AllNull)

C8_Witness ==
  /\ pc = "done" /\ Direct /\ Conditional /\ ~call.cond.given
  /\ call.cond_drop_prob = 0 /\ net.cond_drop_prob = 0
  /\ Batch = 2 /\ rng.labels[1] # rng.labels[2] /\ rng.u[1] = 0

\* C9: a Unet.forward whose input height or width is not divisible by
\* 2^(N-1) runs no layer and draws no random value, and ends with
\* DimensionMismatch and without output.
C9_FailsBeforeComputation ==
  (IsUnet /\ call.op # "none" /\ LabelsOk /\ ~Divisible) =>
     /\ ran = <<>>
     /\ rng = NoRng
     /\ Finished => (pc = "error" /\ err = DimensionMismatch /\ result = NoValue)

\* the k-th sample of the call keeps its class embedding
Kept(k) == p = 0 \/ rng.u[k] < ProbSteps - p

SameMask(u) == \A k \in 1..Batch : (u[k] < ProbSteps - p) = (rng.u[k] < ProbSteps - p)

\* C10: on a conditional LinearNetwork with dropout_p = 0, the output of
\* forward is fixed by the inputs and the keep mask: no dropout noise enters,
\* each sample is conditioned on its label where the mask keeps it and on the
\* null embedding elsewhere, and every other draw of the uniform values that
\* gives the same mask gives the same conditioning.
C10_RandomOnlyThroughMask ==
  (pc = "done" /\ Direct /\ net.kind = "LinearNetwork" /\ LabelsGiven
     /\ net.dropout_p = 0) =>
     /\ rng.noise = 0
     /\ result.shape = call.x
     /\ result.val = Expected([k \in 1..Batch |->
                                 IF Kept(k) THEN call.cond.vals[k] ELSE NullEmb])
     /\ p > 0 =>
          \A u \in [1..Batch -> 0..(ProbSteps - 1)] :
             SameMask(u) =>
               Conditioning(net, Batch, call.cond, call.cond_drop_prob, rng.labels, u)
                 = [p |-> p, c |-> c, sel |-> sel]

C10_Witness ==
  /\ pc = "done" /\ Direct /\ net.kind = "LinearNetwork" /\ LabelsGiven
  /\ net.dropout_p = 0 /\ Len(net.blocks) = 2 /\ Batch = 2
  /\ p > 0 /\ p < ProbSteps /\ Kept(1) /\ ~Kept(2)
  /\ \E u \in [1..Batch -> 0..(ProbSteps - 1)] : u # rng.u /\ SameMask(u)

\* the layers of one encoder or decoder stage, and of a run of stages
StageLayers(stage) ==
  <<Layer("block1", stage), Layer("block2", stage), Layer("attn", stage),
    Layer("resample", stage)>>

RECURSIVE StagesLayers(_)
StagesLayers(stages) ==
  IF stages = <<>> THEN <<>>
  ELSE StageLayers(Head(stages)) \o StagesLayers(Tail(stages))

\* initial projection, encoder 1..N, bottleneck, decoder N..1, final projection
UnetOrder ==
  LET N == Len(net.downs)
  IN <<Layer("init_conv", 0), Layer("time_mlp", 0)>>
     \o StagesLayers([k \in 1..N |-> k])
     \o <<Layer("mid_block1", 0), Layer("mid_attn", 0), Layer("mid_block2", 0)>>
     \o StagesLayers([k \in 1..N |-> N + 1 - k])
     \o <<Layer("final_res_block", 0), Layer("final_conv", 0)>>

\* the layers that ran after the conditioning
AfterCond ==
  LET n == IF Conditional THEN Len(CondLayers(net, call.cond, p)) ELSE 0
  IN SubSeq(ran, n + 1, Len(ran))

HW(s) == <<s[3], s[4]>>

\* C11: Unet.forward runs initial projection, encoder stages, bottleneck,
\* decoder stages in reverse and final projection in that order; the decoder
\* stage that mirrors encoder stage s finds that stage's two maps on top of
\* the skip stack, the second pushed on top, each of the current height and
\* width, and each concatenation, the final one with the pre-stage map
\* included, has the channel count its resnet block was built for.
C11_StageOrderAndPairing ==
  IsUnet =>
     /\ pc = "done" => AfterCond = UnetOrder
     /\ pc = "u_up" =>
          LET st == net.ups[i]
              s == Len(net.ups) + 1 - i
              first == Top(h, 1)
              second == Top(h, 2)
          IN /\ Len(h) = 2 * s
             /\ first.stage = s /\ first.slot = 2
             /\ second.stage = s /\ second.slot = 1
             /\ HW(first.shape) = HW(x) /\ HW(second.shape) = HW(x)
             /\ x[2] + first.shape[2] = st.block1.in
             /\ st.block1.out + second.shape[2] = st.block2.in
     /\ pc = "u_final" =>
          /\ HW(r) = HW(x)
          /\ x[2] + r[2] = net.final_res_block.in

\* the height and width of the input, reduced k times by two, are those of s
Reduced(s, k) == s[3] * Pow2(k) = call.x[3] /\ s[4] * Pow2(k) = call.x[4]

\* C12: in a Unet of N stages every encoder stage but the last halves height
\* and width and is given even ones, the last reduces nothing, so the
\* bottleneck runs at the input's size divided by 2^(N-1) = downsample_factor;
\* the decoder doubles in every stage but its last, and the map given to the
\* final projection has the input's height and width.
C12_HalvingAndDoubling ==
  IsUnet =>
     LET N == Len(net.downs)
     IN /\ pc = "u_down" =>
             /\ Reduced(x, i - 1)
             /\ i < N => (x[3] % 2 = 0 /\ x[4] % 2 = 0)
             /\ net.downs[i].resample.kind = IF i < N THEN "downsample" ELSE "conv"
        /\ pc = "u_mid" =>
             /\ Reduced(x, N - 1)
             /\ x[3] * downsample_factor(net) = call.x[3]
             /\ x[4] * downsample_factor(net) = call.x[4]
        /\ pc = "u_up" =>
             /\ Reduced(x, N - i)
             /\ net.ups[i].resample.kind = IF i < N THEN "upsample" ELSE "conv"
        /\ pc \in {"u_final", "ret", "done"} => HW(x) = HW(call.x)

C12_Witness ==
  /\ IsUnet /\ pc = "u_final" /\ Len(net.downs) = MaxStages
  /\ call.x[3] = Pow2(MaxStages - 1) /\ call.x[4] = Pow2(MaxStages - 1)
  /\ HW(x) = HW(call.x)

\* the cond_drop_prob argument of the forward evaluation that is running
Override == fwds[Len(fwds)]

\* C13: on a conditional network called with labels, the dropout probability
\* in effect is the caller's cond_drop_prob when one is given (0 included)
\* and the configured default otherwise; with probability 0 nothing is drawn
\* and every sample keeps its class embedding, with a positive probability
\* sample k keeps it exactly when its own draw u[k] is below 1 - p and gets
\* the null embedding otherwise, and with probability 1 all get the null one.
C13_EffectiveDropout ==
  (LabelsGiven /\ c # Absent) =>
     /\ p = IF Override # None THEN Override ELSE net.cond_drop_prob
     /\ p = 0 => (sel = call.cond.vals /\ rng.u = <<>>)
     /\ p > 0 =>
          \A k \in 1..Batch :
             sel[k] = IF rng.u[k] < ProbSteps - p THEN call.cond.vals[k] ELSE NullEmb
     /\ p = ProbSteps => sel = AllNull

C13_Witness ==
  /\ pc = "done" /\ Direct /\ LabelsGiven
  /\ call.cond_drop_prob = 0 /\ net.cond_drop_prob > 0
  /\ Batch = 2 /\ call.cond.vals[1] # call.cond.vals[2] /\ sel = call.cond.vals

\* the time argument as the embedding component receives it: replicated
\* across the batch, and with a trailing axis in LinearNetwork
TimeInput ==
  LET expanded == IF call.time = <<1>> THEN <<Batch>> ELSE call.time
  IN IF IsUnet THEN expanded ELSE Unsqueeze1(expanded)

TimeEmb ==
  IF net.time_mlp.learned
  THEN RandomOrLearnedSinusoidalPosEmb(net.time_mlp.dim, TimeInput)
  ELSE SinusoidalPosEmb(net.time_mlp.dim, TimeInput)

TimeDone == pc \in {"u_down", "u_mid", "u_up", "u_final", "l_cond", "l_blocks",
                    "l_final", "d_view", "ret", "done"}

\* C14: for both networks and both time embeddings, a time of shape (B,) or
\* (1,) reaches the embedding component with the rank it expects, the
\* component returns (B, w) with w the input width of the projection after
\* it, and the time embedding is (B, time_dim); the time step never fails.
C14_TimeEmbedding ==
  call.op # "none" =>
     /\ Len(TimeInput) = IF net.time_mlp.learned THEN 2 ELSE 1
     /\ TimeEmb = <<Batch, net.time_mlp.lin1.in>>
     /\ TimeDone => time = <<Batch, net.time_mlp.lin2.out>>
     /\ ~IsErr(time)

\* the conditioning of every sample when nothing conditions it
NullRows == IF Conditional THEN AllNull ELSE [k \in 1..Batch |-> None]

Unlabelled == ~Conditional \/ ~call.cond.given

\* C15: when the network is unconditional, or conditional and called without
\* labels, both evaluations of forward_with_cond_scale give every sample the
\* null conditioning; with dropout_p = 0 they return the same value, and with
\* rescaled_phi = 0 the result is the unconditional output of forward for
\* every cond_scale.
C15_GuidanceWithoutLabels ==
  (Guided /\ Unlabelled /\ net.dropout_p = 0) =>
     /\ (Conditional /\ c # Absent) => sel = AllNull
     /\ ~Conditional => (c = Absent /\ sel = <<>>)
     /\ pc = "done" =>
          /\ out.val = Expected(NullRows)
          /\ logits.val = out.val
          /\ call.rescaled_phi = 0 =>
               (result.kind = "tensor" /\ result.shape = out.shape
                  /\ result.val = Expected(NullRows))

C15_Witness ==
  /\ pc = "done" /\ Guided /\ Conditional /\ ~call.cond.given
  /\ net.dropout_p = 0 /\ call.cond_scale = MaxCondScale /\ call.rescaled_phi = 0
  /\ pass = 2 /\ Batch = 2 /\ rng.labels[1] # rng.labels[2]
  /\ result.val = logits.val
====
